---- MODULE Spec2Model ----
(***************************************************************************)
(* A model of the SentimentAnalyser repository: the text analysis engine   *)
(* (sentiment_analyzer.py: SentimentAnalyzer) and the Reddit collaborator  *)
(* (social_scraper.py: SocialMediaScraper).                                *)
(*                                                                         *)
(* Text is a sequence of one-character strings.  A polarity or a           *)
(* subjectivity produced by the scoring backend is an integer number of    *)
(* ten-thousandths (1004 is 0.1004); a value stored in a record, after     *)
(* round(x, 3), is an integer number of thousandths (100 is 0.1).          *)
(***************************************************************************)
EXTENDS Integers, Sequences, FiniteSets

VARIABLES results, last, ret, reddit_client, session_results

vars == <<results, last, ret, reddit_client, session_results>>

(***************************************************************************)
(* Characters.                                                             *)
(***************************************************************************)
LowerLetters == <<"a", "b", "c", "d", "e", "f", "g", "h", "i", "j", "k", "l", "m", "n", "o", "p", "q", "r", "s", "t", "u", "v", "w", "x", "y", "z">>

UpperLetters == <<"A", "B", "C", "D", "E", "F", "G", "H", "I", "J", "K", "L", "M", "N", "O", "P", "Q", "R", "S", "T", "U", "V", "W", "X", "Y", "Z">>

Range(s) == { s[i] : i \in 1..Len(s) }

\* str.split() / str.strip() / \s : whitespace characters
Whitespace == {" ", "\n", "\t"}

IsSpace(c) == c \in Whitespace

\* \w : letters, digits and the underscore
IsWordChar(c) ==
  c \in Range(LowerLetters) \cup Range(UpperLetters) \cup
        {"0", "1", "2", "3", "4", "5", "6", "7", "8", "9", "_"}

\* str.lower() on one character
LowerChar(c) ==
  IF \E i \in 1..Len(UpperLetters) : UpperLetters[i] = c
    THEN LowerLetters[CHOOSE i \in 1..Len(UpperLetters) : UpperLetters[i] = c]
    ELSE c

\* str.lower()
Lower(w) == [i \in 1..Len(w) |-> LowerChar(w[i])]

(***************************************************************************)
(* Regular-expression helpers: re.sub(pattern, '', text) scans the text    *)
(* from the left; where the pattern matches, the (greedy) match is dropped *)
(* and the scan resumes after it; elsewhere the character is kept.         *)
(***************************************************************************)
\* text[i..] starts with the literal lit
HasPrefixAt(text, i, lit) ==
  /\ i + Len(lit) - 1 <= Len(text)
  /\ \A k \in 1..Len(lit) : text[i + k - 1] = lit[k]

RECURSIVE NonSpaceRunEnd(_, _)
\* the last index of the run of \S characters that starts at i
NonSpaceRunEnd(text, i) ==
  IF i < Len(text) /\ ~IsSpace(text[i + 1])
    THEN NonSpaceRunEnd(text, i + 1)
    ELSE i

RECURSIVE WordRunEnd(_, _)
\* the last index of the run of \w characters that starts at i
WordRunEnd(text, i) ==
  IF i < Len(text) /\ IsWordChar(text[i + 1])
    THEN WordRunEnd(text, i + 1)
    ELSE i

\* lit\S+ at i: the index of the match's last character, 0 when no match
LitNonSpaceEnd(text, i, lit) ==
  IF /\ HasPrefixAt(text, i, lit)
     /\ i + Len(lit) <= Len(text)
     /\ ~IsSpace(text[i + Len(lit)])
    THEN NonSpaceRunEnd(text, i + Len(lit))
    ELSE 0

\* http\S+|www\S+|https\S+ at i: the alternatives are tried in order
UrlMatchEnd(text, i) ==
  IF LitNonSpaceEnd(text, i, <<"h", "t", "t", "p">>) > 0
    THEN LitNonSpaceEnd(text, i, <<"h", "t", "t", "p">>)
  ELSE IF LitNonSpaceEnd(text, i, <<"w", "w", "w">>) > 0
    THEN LitNonSpaceEnd(text, i, <<"w", "w", "w">>)
  ELSE LitNonSpaceEnd(text, i, <<"h", "t", "t", "p", "s">>)

\* @\w+ at i
MentionMatchEnd(text, i) ==
  IF text[i] = "@" /\ i < Len(text) /\ IsWordChar(text[i + 1])
    THEN WordRunEnd(text, i + 1)
    ELSE 0

RECURSIVE SubUrl(_, _)
\* re.sub(r'http\S+|www\S+|https\S+', '', text) from index i on
SubUrl(text, i) ==
  IF i > Len(text) THEN <<>>
  ELSE IF UrlMatchEnd(text, i) > 0 THEN SubUrl(text, UrlMatchEnd(text, i) + 1)
  ELSE <<text[i]>> \o SubUrl(text, i + 1)

RECURSIVE SubMention(_, _)
\* re.sub(r'@\w+', '', text) from index i on
SubMention(text, i) ==
  IF i > Len(text) THEN <<>>
  ELSE IF MentionMatchEnd(text, i) > 0
    THEN SubMention(text, MentionMatchEnd(text, i) + 1)
  ELSE <<text[i]>> \o SubMention(text, i + 1)

\* re.sub(r'#', '', text)
SubHash(text) == SelectSeq(text, LAMBDA c : c # "#")

RECURSIVE SplitFrom(_, _, _)
\* str.split(): the maximal runs of non-whitespace characters, in order
SplitFrom(text, i, cur) ==
  IF i > Len(text) THEN (IF cur = <<>> THEN <<>> ELSE <<cur>>)
  ELSE IF IsSpace(text[i])
    THEN (IF cur = <<>> THEN <<>> ELSE <<cur>>) \o SplitFrom(text, i + 1, <<>>)
  ELSE SplitFrom(text, i + 1, Append(cur, text[i]))

Split(text) == SplitFrom(text, 1, <<>>)

RECURSIVE Join(_)
\* ' '.join(parts)
Join(parts) ==
  IF parts = <<>> THEN <<>>
  ELSE IF Len(parts) = 1 THEN parts[1]
  ELSE parts[1] \o <<" ">> \o Join(Tail(parts))

\* str.strip()
Strip(text) ==
  IF \A i \in 1..Len(text) : IsSpace(text[i]) THEN <<>>
  ELSE LET a == CHOOSE i \in 1..Len(text) :
                  ~IsSpace(text[i]) /\ \A j \in 1..(i - 1) : IsSpace(text[j])
           b == CHOOSE i \in 1..Len(text) :
                  ~IsSpace(text[i]) /\ \A j \in (i + 1)..Len(text) : IsSpace(text[j])
       IN  SubSeq(text, a, b)

(***************************************************************************)
(* SentimentAnalyzer.clean_text                                            *)
(***************************************************************************)
clean_text(text) == Join(Split(SubHash(SubMention(SubUrl(text, 1), 1))))

(***************************************************************************)
(* The scoring backend (TextBlob), an external capability: for a cleaned   *)
(* text it returns a polarity and a subjectivity, or raises.  The empty    *)
(* text scores (0.0, 0.0).                                                 *)
(***************************************************************************)
\* 0.1, the classification threshold, in ten-thousandths
Threshold == 1000

\* the scores the backend may return for a non-empty text: <<polarity, subjectivity>>
Scores == { <<-5 * Threshold, 6004>>, <<0, 0>>, <<Threshold + 4, 3336>>,
            <<5 * Threshold, 10 * Threshold>> }

ScoreOutcomes(cleaned) ==
  IF cleaned = <<>>
    THEN { [raise |-> FALSE, polarity |-> 0, subjectivity |-> 0] }
    ELSE { [raise |-> FALSE, polarity |-> s[1], subjectivity |-> s[2]] : s \in Scores }
         \cup { [raise |-> TRUE] }

(***************************************************************************)
(* round(): the integers nearest to num / den (den > 0).  Python rounds    *)
(* the binary float, which on a decimal tie lies just above or just below  *)
(* it (round(0.1005, 3) is 0.101, round(0.0625, 3) is 0.062): a tie has    *)
(* both neighbours as possible outcomes.                                   *)
(***************************************************************************)
RoundDiv(num, den) ==
  LET q == num \div den
      r == num - q * den
  IN  IF 2 * r < den THEN {q}
      ELSE IF 2 * r > den THEN {q + 1}
      ELSE {q, q + 1}

\* round(x, 3) of a value in ten-thousandths, in thousandths
Round3(x) == RoundDiv(x, 10)

(***************************************************************************)
(* SentimentAnalyzer.analyze_sentiment                                     *)
(***************************************************************************)
\* Classify with the thresholds included: >= 0.1 Positive, <= -0.1 Negative
ClassifyInclusive(polarity) ==
  IF polarity >= Threshold THEN "Positive"
  ELSE IF polarity <= -Threshold THEN "Negative"
  ELSE "Neutral"

\* lines 39-45: the classification of a polarity (in ten-thousandths)
Classify(polarity) ==
  IF polarity > Threshold THEN "Positive"
  ELSE IF polarity < -Threshold THEN "Negative"
  ELSE "Neutral"

\* the records analyze_sentiment may return for text when the backend
\* returns score
analyze_sentiment(text, score) ==
  { [text |-> text,
     cleaned_text |-> clean_text(text),
     sentiment |-> Classify(score.polarity),
     polarity |-> p,
     subjectivity |-> s] :
    p \in Round3(score.polarity), s \in Round3(score.subjectivity) }

(***************************************************************************)
(* SentimentAnalyzer.analyze_multiple                                      *)
(***************************************************************************)
\* analyze_multiple without line 57: the records are appended to the stored list
KeepResults == results

\* line 57: self.results = []
ResetResults == <<>>

\* the skip test without strip(): not text
IsBlankEmptyOnly(text) == text = <<>>

\* line 60: not text.strip()
IsBlank(text) == Strip(text) = <<>>

RECURSIVE AnalyzeFrom(_, _, _)
\* lines 59-64: the loop from the i-th text on, self.results being acc; the
\* outcomes are the stored list and whether the call raised
AnalyzeFrom(texts, i, acc) ==
  IF i > Len(texts) THEN { [stored |-> acc, raised |-> FALSE] }
  ELSE IF IsBlank(texts[i]) THEN AnalyzeFrom(texts, i + 1, acc)
  ELSE UNION {
         IF o.raise
           THEN { [stored |-> acc, raised |-> TRUE] }
           ELSE UNION { AnalyzeFrom(texts, i + 1, Append(acc, rec)) :
                        rec \in analyze_sentiment(texts[i], o) } :
         o \in ScoreOutcomes(clean_text(texts[i])) }

(***************************************************************************)
(* The documents and batches the analyzer is called with.                  *)
(***************************************************************************)
MaxBatch == 2

DocBlank == <<" ">>

DocMention == <<"@", "b", "o", "b">>

DocA == <<"f", "u", "n", " ", "b", "a", "d", " ", "F", "u", "n">>

DocB == <<"#", "b", "a", "d", " ", "@", "b", "o", "b", " ", "T", "H", "E", " ", "c", "a", "t", " ", "o", "k">>

Docs == { DocBlank, DocMention, DocA, DocB }

RECURSIVE SeqsUpTo(_, _)
SeqsUpTo(S, n) ==
  IF n = 0 THEN { <<>> }
  ELSE SeqsUpTo(S, n - 1) \cup
       { Append(s, x) : s \in { t \in SeqsUpTo(S, n - 1) : Len(t) = n - 1 }, x \in S }

Batches == SeqsUpTo(Docs, MaxBatch)

(***************************************************************************)
(* SentimentAnalyzer.get_statistics                                        *)
(***************************************************************************)
None == [kind |-> "None"]

\* df['sentiment'].value_counts().get(label, 0)
CountLabel(rs, label) == Cardinality({ i \in 1..Len(rs) : rs[i].sentiment = label })

RECURSIVE SumField(_, _)
\* the sum behind df[field].mean(); field is "polarity" or "subjectivity"
SumField(rs, field) ==
  IF rs = <<>> THEN 0
  ELSE (IF field = "polarity" THEN rs[1].polarity ELSE rs[1].subjectivity)
       + SumField(Tail(rs), field)

\* round((count / total) * 100, 1), in tenths of a percent
Pct(count, total) == RoundDiv(count * 1000, total)

\* lines 71-89: the statistics of a non-empty list rs
StatisticsOf(rs) ==
       LET total == Len(rs)
       IN  { [kind |-> "dict",
              total |-> total,
              positive |-> CountLabel(rs, "Positive"),
              negative |-> CountLabel(rs, "Negative"),
              neutral |-> CountLabel(rs, "Neutral"),
              positive_pct |-> pp,
              negative_pct |-> np,
              neutral_pct |-> up,
              avg_polarity |-> ap,
              avg_subjectivity |-> as] :
             pp \in Pct(CountLabel(rs, "Positive"), total),
             np \in Pct(CountLabel(rs, "Negative"), total),
             up \in Pct(CountLabel(rs, "Neutral"), total),
             ap \in RoundDiv(SumField(rs, "polarity"), total),
             as \in RoundDiv(SumField(rs, "subjectivity"), total) }

\* get_statistics returning zeroed-out statistics for an empty list
get_statistics_zeros(rs) ==
  IF rs = <<>>
    THEN { [kind |-> "dict", total |-> 0, positive |-> 0, negative |-> 0,
            neutral |-> 0, positive_pct |-> 0, negative_pct |-> 0,
            neutral_pct |-> 0, avg_polarity |-> 0, avg_subjectivity |-> 0] }
    ELSE StatisticsOf(rs)

\* the values get_statistics may return over the stored list rs
get_statistics(rs) == IF rs = <<>> THEN { None } ELSE StatisticsOf(rs)

(***************************************************************************)
(* SentimentAnalyzer.get_top_words                                         *)
(***************************************************************************)
\* lines 106-109
stopwords ==
  { <<"t", "h", "e">>, <<"a">>, <<"a", "n">>, <<"a", "n", "d">>, <<"o", "r">>,
    <<"b", "u", "t">>, <<"i", "n">>, <<"o", "n">>, <<"a", "t">>, <<"t", "o">>,
    <<"f", "o", "r">>, <<"o", "f">>, <<"w", "i", "t", "h">>, <<"i", "s">>,
    <<"w", "a", "s">>, <<"a", "r", "e">>, <<"b", "e", "e", "n">>, <<"b", "e">>,
    <<"h", "a", "v", "e">>, <<"h", "a", "s">>, <<"h", "a", "d">>, <<"d", "o">>,
    <<"d", "o", "e", "s">>, <<"d", "i", "d">>, <<"w", "i", "l", "l">>,
    <<"w", "o", "u", "l", "d">>, <<"c", "o", "u", "l", "d">>,
    <<"s", "h", "o", "u", "l", "d">>, <<"m", "a", "y">>, <<"m", "i", "g", "h", "t">>,
    <<"i">>, <<"y", "o", "u">>, <<"h", "e">>, <<"s", "h", "e">>, <<"i", "t">>,
    <<"w", "e">>, <<"t", "h", "e", "y">>, <<"t", "h", "i", "s">>,
    <<"t", "h", "a", "t">>, <<"t", "h", "e", "s", "e">>, <<"t", "h", "o", "s", "e">> }

\* sentiment_type=None
NoFilter == "None"

\* the stopword test on the token as written, not lower-cased
KeepWordCaseSensitive(word) == Len(word) > 2 /\ word \notin stopwords

\* line 113: the test a token passes to be counted
KeepWord(word) == Len(word) > 2 /\ Lower(word) \notin stopwords

\* lines 99-100: the records kept by the sentiment filter
FilterRecords(rs, sentiment_type) ==
  IF sentiment_type # NoFilter
    THEN SelectSeq(rs, LAMBDA r : r.sentiment = sentiment_type)
    ELSE rs

\* lines 103, 112-113: the lower-cased tokens that are counted, in text order
CountedWords(rs) ==
  LET all_text == Join([i \in 1..Len(rs) |-> rs[i].cleaned_text])
      kept == SelectSeq(Split(all_text), KeepWord)
  IN  [i \in 1..Len(kept) |-> Lower(kept[i])]

RECURSIVE CounterOf(_, _)
\* Counter(words): <<word, count>> entries in order of first insertion; acc
\* holds the entries of the words before the i-th
CounterOf(words, acc) ==
  IF words = <<>> THEN acc
  ELSE IF \E k \in 1..Len(acc) : acc[k][1] = Head(words)
    THEN CounterOf(Tail(words),
                   [k \in 1..Len(acc) |->
                      IF acc[k][1] = Head(words)
                        THEN <<acc[k][1], acc[k][2] + 1>> ELSE acc[k]])
    ELSE CounterOf(Tail(words), Append(acc, <<Head(words), 1>>))

\* a sort that places an entry before the earlier entries of equal count
InsertByCountTiesFirst(sorted, e) ==
  LET k == Cardinality({ j \in 1..Len(sorted) : sorted[j][2] > e[2] })
  IN  SubSeq(sorted, 1, k) \o <<e>> \o SubSeq(sorted, k + 1, Len(sorted))

\* the place of entry e in a list sorted by count, descending: after every
\* entry whose count is at least e's (a stable sort keeps insertion order)
InsertByCount(sorted, e) ==
  LET k == Cardinality({ j \in 1..Len(sorted) : sorted[j][2] >= e[2] })
  IN  SubSeq(sorted, 1, k) \o <<e>> \o SubSeq(sorted, k + 1, Len(sorted))

RECURSIVE SortByCount(_, _)
SortByCount(entries, sorted) ==
  IF entries = <<>> THEN sorted
  ELSE SortByCount(Tail(entries), InsertByCount(sorted, Head(entries)))

\* Counter.most_common(n): the n first entries by count, descending, entries
\* of equal count in insertion order; none when n <= 0
MostCommon(counter, n) ==
  LET sorted == SortByCount(counter, <<>>)
  IN  IF n <= 0 THEN <<>>
      ELSE SubSeq(sorted, 1, IF n < Len(sorted) THEN n ELSE Len(sorted))

get_top_words(rs, sentiment_type, top_n) ==
  IF rs = <<>> THEN <<>>
  ELSE MostCommon(CounterOf(CountedWords(FilterRecords(rs, sentiment_type)), <<>>),
                  top_n)

\* line 71: the DataFrame is built from self.results, which is not assigned
StoredAfterStatistics(rs) == rs

\* the filter applied to the stored list itself
StoredFiltered(rs, sentiment_type) == FilterRecords(rs, sentiment_type)

\* lines 96-100: the filter rebinds the local DataFrame df; self.results is
\* not assigned
StoredAfterTopWords(rs, sentiment_type) == rs

\* the sentiment_type and top_n arguments get_top_words is called with
MaxTopN == 2

Filters == { NoFilter, "Positive", "Negative", "Neutral" }

TopNs == 0..MaxTopN \cup { 10 }

(***************************************************************************)
(* The analyzer as a state machine.  results is self.results; last is the  *)
(* most recent analyze_multiple call (its argument, whether it raised, the *)
(* list it returned, whether a non-empty list was stored when it began);   *)
(* ret is the most recent other call and its result; session_results is    *)
(* st.session_state.results of the dashboard (app.py), None outside it.    *)
(***************************************************************************)
NoCall == [op |-> "none"]

\* SentimentAnalyzer.__init__
Init ==
  /\ results = <<>>
  /\ last = NoCall
  /\ ret = NoCall
  /\ reddit_client = "None"
  /\ session_results = None

\* the outcomes of analyze_multiple(texts), for every batch
AnalyzeOutcomes == [texts \in Batches |-> AnalyzeFrom(texts, 1, ResetResults)]

\* analyze_multiple(texts): returns self.results, or raises part-way
AnalyzeMultiple ==
  \E texts \in Batches :
    \E o \in AnalyzeOutcomes[texts] :
      /\ results' = o.stored
      /\ last' = [op |-> "analyze_multiple", texts |-> texts, raised |-> o.raised,
                  val |-> IF o.raised THEN <<>> ELSE o.stored,
                  replaced |-> results # <<>>]
      /\ ret' = NoCall
      /\ UNCHANGED <<reddit_client, session_results>>

\* get_statistics()
GetStatistics ==
  \E v \in get_statistics(results) :
    /\ ret' = [op |-> "get_statistics", val |-> v]
    /\ results' = StoredAfterStatistics(results)
    /\ UNCHANGED <<last, reddit_client, session_results>>

\* get_top_words(sentiment_type, top_n)
GetTopWords ==
  \E f \in Filters, n \in TopNs :
    /\ ret' = [op |-> "get_top_words", sentiment_type |-> f, top_n |-> n,
               val |-> get_top_words(results, f, n)]
    /\ results' = StoredAfterTopWords(results, f)
    /\ UNCHANGED <<last, reddit_client, session_results>>

Next == AnalyzeMultiple \/ GetStatistics

Spec == Init /\ [][Next]_vars

\* get_top_words over every list analyze_multiple can leave stored
InitWords ==
  /\ \E texts \in Batches :
       \E o \in AnalyzeOutcomes[texts] :
         /\ results = o.stored
         /\ last = [op |-> "analyze_multiple", texts |-> texts, raised |-> o.raised,
                    val |-> IF o.raised THEN <<>> ELSE o.stored,
                    replaced |-> FALSE]
  /\ ret = NoCall
  /\ reddit_client = "None"
  /\ session_results = None

NextWords == GetTopWords

SpecWords == InitWords /\ [][NextWords]_vars

\* both read operations, in any order, over every list analyze_multiple can
\* leave stored
NextReads == GetStatistics \/ GetTopWords

SpecReads == InitWords /\ [][NextReads]_vars

(***************************************************************************)
(* clean_text as a function of its argument: every text over CleanChars of *)
(* at most MaxCleanLen characters is cleaned, and the result cleaned again.*)
(***************************************************************************)
MaxCleanLen == 5

CleanChars == { "h", "t", "p", "w", "@", "#", " ", "b", "." }

InitClean ==
  /\ results = <<>>
  /\ last = NoCall
  /\ reddit_client = "None"
  /\ session_results = None
  /\ \E x \in SeqsUpTo(CleanChars, MaxCleanLen) : ret = [op |-> "input", text |-> x]

\* clean_text(text)
CleanText ==
  /\ ret.op = "input"
  /\ ret' = [op |-> "clean_text", text |-> ret.text, val |-> clean_text(ret.text),
             calls |-> 1]
  /\ UNCHANGED <<results, last, reddit_client, session_results>>

\* clean_text applied to the value the first call returned
CleanAgain ==
  /\ ret.op = "clean_text"
  /\ ret.calls = 1
  /\ ret' = [op |-> "clean_text", text |-> ret.val, val |-> clean_text(ret.val),
             calls |-> 2]
  /\ UNCHANGED <<results, last, reddit_client, session_results>>

NextClean == CleanText \/ CleanAgain

SpecClean == InitClean /\ [][NextClean]_vars

(***************************************************************************)
(* analyze_sentiment as a function of its argument and of the backend's    *)
(* score, over every polarity from -1.0 to 1.0 in steps of 0.0001.         *)
(***************************************************************************)
PolarityGrid == (-10 * Threshold)..(10 * Threshold)

GridScores(cleaned) ==
  IF cleaned = <<>>
    THEN { [raise |-> FALSE, polarity |-> 0, subjectivity |-> 0] }
    ELSE { [raise |-> FALSE, polarity |-> p, subjectivity |-> s] :
           p \in PolarityGrid, s \in { 0, 5 * Threshold + 5 } }

InitSentiment ==
  /\ results = <<>>
  /\ last = NoCall
  /\ reddit_client = "None"
  /\ session_results = None
  /\ \E text \in { DocMention, DocA } :
       \E score \in GridScores(clean_text(text)) :
         ret = [op |-> "input", text |-> text, score |-> score]

\* analyze_sentiment(text), the backend returning ret.score
AnalyzeSentiment ==
  /\ ret.op = "input"
  /\ \E rec \in analyze_sentiment(ret.text, ret.score) :
       ret' = [op |-> "analyze_sentiment", text |-> ret.text, score |-> ret.score,
               val |-> rec]
  /\ UNCHANGED <<results, last, reddit_client, session_results>>

NextSentiment == AnalyzeSentiment

SpecSentiment == InitSentiment /\ [][NextSentiment]_vars

(***************************************************************************)
(* SocialMediaScraper.  reddit_client is self.reddit_client after          *)
(* __init__: the client when praw.Reddit(...) and user.me() succeeded,     *)
(* "None" when either raised (initialize_api, lines 13-26).                *)
(***************************************************************************)
MaxLimit == 3

Submissions ==
  { [title |-> <<"a">>, selftext |-> <<"x">>],
    [title |-> <<"b">>, selftext |-> <<>>],
    [title |-> <<"c">>, selftext |-> <<"y", " ", "z">>] }

\* line 37: submission.title + " " + submission.selftext
PostOf(submission) == submission.title \o <<" ">> \o submission.selftext

InitScraper ==
  /\ results = <<>>
  /\ last = NoCall
  /\ ret = NoCall
  /\ reddit_client \in { "None", "client" }
  /\ session_results = None

\* lines 34-42 with an initialized client: the listing would yield subs; the
\* backend raises after fetched of them (fetched = Len(subs) + 1: never)
SearchOutcome(subs, fetched) ==
  LET failed == fetched <= Len(subs)
      n == IF failed THEN fetched ELSE Len(subs)
  IN  [posts |-> [i \in 1..n |-> PostOf(subs[i])], failed |-> failed]

\* search_reddit(query, subreddit, limit)
SearchReddit ==
  \E limit \in 0..MaxLimit :
    IF reddit_client = "None"
      THEN /\ ret' = [op |-> "search_reddit", limit |-> limit, failed |-> FALSE,
                      raised |-> FALSE, val |-> <<>>]
           /\ UNCHANGED <<results, last, reddit_client, session_results>>
      ELSE \E subs \in SeqsUpTo(Submissions, limit) :
             \E fetched \in 0..(Len(subs) + 1) :
               LET o == SearchOutcome(subs, fetched)
               IN  /\ ret' = [op |-> "search_reddit", limit |-> limit,
                              failed |-> o.failed, raised |-> FALSE, val |-> o.posts]
                   /\ UNCHANGED <<results, last, reddit_client, session_results>>

NextScraper == SearchReddit

SpecScraper == InitScraper /\ [][NextScraper]_vars

(***************************************************************************)
(* The dashboard (app.py).  One action is one run of the script with the   *)
(* rerun an analysis ends in: the mode's handler, then the results section.*)
(* session_results is st.session_state.results: None, or the list an       *)
(* analyze_multiple call returned.  A later call rebinds self.results to a *)
(* new list (line 57 of sentiment_analyzer.py), so the list the session    *)
(* holds is not changed by it.                                             *)
(***************************************************************************)
\* the posts a search of the dashboard fetches at most
AppLimit == 1

\* the lines and cells the dashboard is given
AppDocs == { DocBlank, DocA }

AppBatches == SeqsUpTo(AppDocs, MaxBatch)

ListOf(rs) == [kind |-> "list", val |-> rs]

\* line 190: if st.session_state.results
Truthy(s) == s.kind = "list" /\ s.val # <<>>

\* lines 142, 163: [line.strip() for line in ... if line.strip()]
StrippedLines(lines) ==
  LET kept == SelectSeq(lines, LAMBDA l : Strip(l) # <<>>)
  IN  [i \in 1..Len(kept) |-> Strip(kept[i])]

\* lines 190-201: the results section over session state s and the analyzer's
\* list rs; stats['total'] raises TypeError when get_statistics returned None
DisplayResults(mode, s, rs) ==
  IF Truthy(s)
    THEN { [op |-> "run", mode |-> mode, uncaught |-> FALSE, rendered |-> TRUE,
            stats |-> v, crashed |-> v.kind = "None"] : v \in get_statistics(rs) }
    ELSE { [op |-> "run", mode |-> mode, uncaught |-> FALSE, rendered |-> FALSE,
            stats |-> None, crashed |-> FALSE] }

\* st.session_state.results = st.session_state.analyzer.analyze_multiple(texts)
\* (lines 103, 144, 182) and what follows: st.rerun() and the results section
\* when the call returns; when it raises, the results section of this run if
\* the handler catches it (caught), the end of the run if not
AnalyzeAndShow(mode, texts, caught) ==
  \E o \in AnalyzeFrom(texts, 1, ResetResults) :
    /\ results' = o.stored
    /\ last' = [op |-> "analyze_multiple", texts |-> texts, raised |-> o.raised,
                val |-> IF o.raised THEN <<>> ELSE o.stored,
                replaced |-> results # <<>>]
    /\ session_results' = IF o.raised THEN session_results ELSE ListOf(o.stored)
    /\ IF o.raised /\ ~caught
         THEN ret' = [op |-> "run", mode |-> mode, uncaught |-> TRUE,
                      rendered |-> FALSE, stats |-> None, crashed |-> FALSE]
         ELSE ret' \in DisplayResults(mode, session_results', o.stored)
    /\ UNCHANGED reddit_client

\* lines 36-42
InitApp ==
  /\ results = <<>>
  /\ last = NoCall
  /\ ret = NoCall
  /\ reddit_client \in { "None", "client" }
  /\ session_results = None

\* a run that starts no analysis: no button pressed, a search without posts,
\* an upload that cannot be read
RunIdle ==
  /\ ret' \in DisplayResults("idle", session_results, results)
  /\ UNCHANGED <<results, last, reddit_client, session_results>>

\* lines 93-104: Search & Analyze with posts found
RunSearch ==
  /\ reddit_client # "None"
  /\ \E subs \in SeqsUpTo(Submissions, AppLimit) :
       \E fetched \in 0..(Len(subs) + 1) :
         LET posts == SearchOutcome(subs, fetched).posts
         IN  /\ posts # <<>>
             /\ AnalyzeAndShow("search", posts, FALSE)

\* lines 140-145: Analyze Text with some text entered
RunManual ==
  \E lines \in AppBatches :
    /\ \E i \in 1..Len(lines) : Strip(lines[i]) # <<>>
    /\ AnalyzeAndShow("manual", StrippedLines(lines), FALSE)

\* lines 159-187: Analyze Uploaded Data, on the lines of a .txt file or the
\* cells of a .csv column, inside try / except Exception
RunUpload ==
  \E lines \in AppBatches, csv \in BOOLEAN :
    AnalyzeAndShow("upload", IF csv THEN lines ELSE StrippedLines(lines), TRUE)

NextApp == RunIdle \/ RunSearch \/ RunManual \/ RunUpload

SpecApp == InitApp /\ [][NextApp]_vars

(***************************************************************************)
(* Properties.                                                             *)
(***************************************************************************)
\* the most recent analyze_multiple call returned
Returned == last.op = "analyze_multiple" /\ ~last.raised

\* a text with a non-whitespace character
NonBlank(text) == \E i \in 1..Len(text) : text[i] \notin Whitespace

TextsOf(rs) == [i \in 1..Len(rs) |-> rs[i].text]

\* C1: an analyze_multiple call in which scoring fails leaves the stored
\* collection exactly as it was before the call.
C1_FailedBatchKeepsPrior ==
  [][(last' # last /\ last'.op = "analyze_multiple" /\ last'.raised)
       => results' = results]_vars

\* C2: after a completed analyze_multiple call the stored collection is the
\* returned one, and holds nothing but records of that call's batch, at most
\* one per entry, whatever was stored before.
C2_StoredIsLastReturned ==
  Returned =>
    /\ results = last.val
    /\ Len(results) <= Len(last.texts)
    /\ \A i \in 1..Len(results) : results[i].text \in Range(last.texts)

\* a completed call that replaced a non-empty collection
C2_Witness ==
  /\ Returned
  /\ last.replaced
  /\ results # <<>>
  /\ Len(last.texts) = MaxBatch

\* C3: the returned collection has one record per non-blank entry of the
\* batch, in the same order, each holding the entry as its original text.
C3_OneRecordPerNonBlank ==
  Returned => TextsOf(last.val) = SelectSeq(last.texts, NonBlank)

\* a batch with a blank entry before a non-blank one
C3_Witness ==
  /\ Returned
  /\ \E i, j \in 1..Len(last.texts) :
       i < j /\ ~NonBlank(last.texts[i]) /\ NonBlank(last.texts[j])
  /\ last.val # <<>>

\* C4: every stored record's sentiment is the classification of the polarity
\* the record stores (thousandths, so ten times as many ten-thousandths).
C4_SentimentOfStoredPolarity ==
  \A i \in 1..Len(results) :
    results[i].sentiment = Classify(10 * results[i].polarity)

\* C5: clean_text is idempotent: cleaning a cleaned text changes nothing.
C5_CleanIdempotent ==
  (ret.op = "clean_text" /\ ret.calls = 2) => ret.val = ret.text

\* C6: the label of a record is Positive exactly for a backend polarity above
\* 0.1, Negative exactly below -0.1 and Neutral exactly in between, both
\* thresholds included; it is one of the three for every polarity in [-1, 1].
C6_StrictThresholds ==
  ret.op = "analyze_sentiment" =>
    LET p == ret.score.polarity
        label == ret.val.sentiment
    IN  /\ label \in { "Positive", "Negative", "Neutral" }
        /\ label = "Positive" <=> p > Threshold
        /\ label = "Negative" <=> p < -Threshold
        /\ label = "Neutral" <=> (-Threshold <= p /\ p <= Threshold)

\* a polarity of exactly 0.1 or -0.1, labelled Neutral
C6_Witness ==
  /\ ret.op = "analyze_sentiment"
  /\ ret.score.polarity \in { Threshold, -Threshold }
  /\ ret.val.sentiment = "Neutral"

\* C7: get_statistics returns None exactly when the stored collection is
\* empty; over a non-empty one it returns statistics of all its records.
C7_AbsentIffEmpty ==
  ret.op = "get_statistics" =>
    /\ ret.val.kind = "None" <=> results = <<>>
    /\ results # <<>> =>
         /\ ret.val.kind = "dict"
         /\ ret.val.total = Len(results)
         /\ ret.val.positive + ret.val.negative + ret.val.neutral = ret.val.total

\* None after a completed batch whose documents are all blank
C7_Witness ==
  /\ ret.op = "get_statistics"
  /\ ret.val.kind = "None"
  /\ Returned
  /\ last.texts # <<>>

\* the tokens of the cleaned texts of the records matching filter f, in
\* record order, that are longer than 2 and no stopword once lower-cased
MatchingTokens(rs, f) ==
  LET match == SelectSeq(rs, LAMBDA r : f = NoFilter \/ r.sentiment = f)
      toks == Split(Join([i \in 1..Len(match) |-> match[i].cleaned_text]))
      low == [i \in 1..Len(toks) |-> Lower(toks[i])]
  IN  SelectSeq(low, LAMBDA w : Len(w) > 2 /\ w \notin stopwords)

Occurrences(w, ws) == Cardinality({ i \in 1..Len(ws) : ws[i] = w })

FirstAt(w, ws) == CHOOSE i \in 1..Len(ws) : ws[i] = w /\ \A j \in 1..(i - 1) : ws[j] # w

\* a ranks before b: more occurrences, or as many and an earlier first one
RanksBefore(a, b, ws) ==
  \/ Occurrences(a, ws) > Occurrences(b, ws)
  \/ /\ Occurrences(a, ws) = Occurrences(b, ws)
     /\ FirstAt(a, ws) < FirstAt(b, ws)

\* C8: get_top_words returns the first top_n (top_n >= 0) distinct surviving
\* tokens by count descending, equal counts by first occurrence in the
\* matching records' text, each with its count; nothing when no record
\* matches or no token survives.
C8_TopWordsRanking ==
  ret.op = "get_top_words" =>
    LET ws == MatchingTokens(results, ret.sentiment_type)
        val == ret.val
        distinct == Cardinality(Range(ws))
    IN  /\ Len(val) = IF ret.top_n < distinct THEN ret.top_n ELSE distinct
        /\ \A k \in 1..Len(val) :
             /\ val[k][1] \in Range(ws)
             /\ val[k][2] = Occurrences(val[k][1], ws)
        /\ \A j, k \in 1..Len(val) : j < k => RanksBefore(val[j][1], val[k][1], ws)
        /\ \A w \in Range(ws) :
             (\A k \in 1..Len(val) : val[k][1] # w) =>
               \A k \in 1..Len(val) : RanksBefore(val[k][1], w, ws)

\* a result cut to top_n whose entries include two of equal count
C8_Witness ==
  /\ ret.op = "get_top_words"
  /\ Len(ret.val) = ret.top_n
  /\ Cardinality(Range(MatchingTokens(results, ret.sentiment_type))) > ret.top_n
  /\ \E j, k \in 1..Len(ret.val) : j < k /\ ret.val[j][2] = ret.val[k][2]

\* C9: no returned word has 2 characters or fewer or is a stopword.
C9_NoShortOrStopword ==
  ret.op = "get_top_words" =>
    \A k \in 1..Len(ret.val) :
      /\ Len(ret.val[k][1]) > 2
      /\ ret.val[k][1] \notin stopwords

\* words returned from records whose text holds a short token and an
\* upper-case stopword
C9_Witness ==
  /\ ret.op = "get_top_words"
  /\ ret.val # <<>>
  /\ \A i \in 1..Len(results) :
       \E w \in Range(Split(results[i].cleaned_text)) :
         \E v \in Range(Split(results[i].cleaned_text)) :
           Len(w) <= 2 /\ v \notin stopwords /\ Lower(v) \in stopwords

\* C10: search_reddit never raises, and returns an empty sequence when the
\* client is not initialized and when the backend fails during the search.
C10_EmptyOnFailure ==
  (ret.op = "search_reddit" /\ (reddit_client = "None" \/ ret.failed)) =>
    /\ ~ret.raised
    /\ ret.val = <<>>

\* C11: get_statistics and get_top_words, with any filter and top_n, leave
\* the stored collection as it is: the same records in the same order.
C11_ReadsKeepStored == [][results' = results]_vars

\* get_top_words has returned under a filter that some stored record does
\* not match, after get_statistics or another get_top_words
C11_Witness ==
  /\ ret.op = "get_top_words"
  /\ ret.sentiment_type # NoFilter
  /\ results # <<>>
  /\ \E i \in 1..Len(results) : results[i].sentiment # ret.sentiment_type
  /\ \E i \in 1..Len(results) : results[i].sentiment = ret.sentiment_type

\* C12: whenever the dashboard renders the results section, the analyzer's
\* stored collection is the collection the session holds, and get_statistics
\* does not return None.
C12_RenderedMatchesStored ==
  (ret.op = "run" /\ ret.rendered) =>
    /\ results = session_results.val
    /\ ret.stats.kind = "dict"

====
